---- MODULE Spec2Model ----
(***************************************************************************)
(* The allocation core of ProjectAllocationManagerMCP:                     *)
(* service/allocation_service.py (AllocationService), models/allocation.py *)
(* and the two mutating tools of project_mcp/mcp_tools.py.                 *)
(*                                                                         *)
(* Time is a line of instants 0..MaxT.  A datetime is an instant; the      *)
(* midnight of calendar day d is the instant 2*d, and an odd instant is a  *)
(* time of day after that midnight (datetime.today() carries the time of   *)
(* day, strptime("%Y-%m-%d") yields a midnight).                           *)
(***************************************************************************)
EXTENDS Integers, Sequences, FiniteSets, TLC

\* ---------------------------------------------------------------- bounds
MaxT == 2
MaxAllocs == 3
NumIds == 2

\* ------------------------------------------------------------- the data
\* Python's None (an absent end date, an omitted percentage).
None == -1

Instants == 0 .. MaxT
Days == 0 .. (MaxT \div 2)

\* The identifiers of the records load_data_async put in _engineers/_projects.
EngineerIds == {"e1"}
ProjectIds == {"p1", "p2"}

\* Identifiers a caller may pass: the known ones and one that names nothing.
EngineerArgs == EngineerIds \cup {"e0"}
ProjectArgs == ProjectIds \cup {"p0"}

\* The values uuid4()[:8] can produce ("alloc-<8 hex chars>").
AllocIds == 1 .. NumIds
\* An allocation identifier no stored record can have.
UnknownAllocId == 0
AllocIdArgs == AllocIds \cup {UnknownAllocId}

\* Percentages a caller may pass (None: omitted, update only).
PctArgs == {0, 50, 100, 101}
OptPctArgs == PctArgs \cup {None}

\* Date texts a caller may pass: None / "" / whitespace, a text strptime
\* rejects (such as "2024-13-40"), or the YYYY-MM-DD text of a day.
BlankText == [kind |-> "blank", day |-> 0]
MalformedText == [kind |-> "malformed", day |-> 0]
DateText(d) == [kind |-> "date", day |-> d]
DateTexts == {BlankText, MalformedText} \cup {DateText(d) : d \in Days}

\* `not text or text.strip() == ""`
IsBlank(text) == text.kind = "blank"
\* strptime(text, "%Y-%m-%d") raises ValueError
RaisesValueError(text) == text.kind = "malformed"
\* strptime(text, "%Y-%m-%d"): the midnight of the day the text names
strptime(text) == 2 * text.day

\* models/allocation.py: Allocation
Allocation(id, engineer_id, project_id, allocation_percentage, start_date, end_date) ==
    [id |-> id, engineer_id |-> engineer_id, project_id |-> project_id,
     allocation_percentage |-> allocation_percentage,
     start_date |-> start_date, end_date |-> end_date]

\* The "no record" third component of a result tuple.
NoAllocation == Allocation(0, "", "", 0, 0, None)

\* allocations: self._allocations. pc, call, result, before: the tool call of
\* a client that makes one call at a time, and the store before it.
\* listing: what list_allocations returned. tasks: the tool calls of clients
\* whose calls are in flight together.
VARIABLES allocations, pc, call, result, before, listing, tasks

vars == <<allocations, pc, call, result, before, listing, tasks>>

\* --------------------------------------------------------- pure helpers
RECURSIVE SumPercentages(_)
\* sum(a.allocation_percentage for a in allocs)
SumPercentages(allocs) ==
    IF allocs = <<>> THEN 0
    ELSE Head(allocs).allocation_percentage + SumPercentages(Tail(allocs))

RangeOverlaps_touching(alloc, new_start, new_end) ==
    LET existing_start == alloc.start_date
        existing_end == alloc.end_date
    IN  IF new_end # None /\ existing_end # None
          THEN new_start <= existing_end /\ new_end >= existing_start
        ELSE IF new_end = None /\ existing_end # None
          THEN new_start <= existing_end
        ELSE IF new_end # None /\ existing_end = None
          THEN new_end >= existing_start
        ELSE TRUE

\* The test of one existing allocation in _get_overlapping_allocations.
RangeOverlaps(alloc, new_start, new_end) ==
    LET existing_start == alloc.start_date
        existing_end == alloc.end_date
    IN  IF new_end # None /\ existing_end # None
          THEN new_start < existing_end /\ new_end > existing_start
        ELSE IF new_end = None /\ existing_end # None
          THEN new_start < existing_end
        ELSE IF new_end # None /\ existing_end = None
          THEN new_end > existing_start
        ELSE TRUE

get_overlapping_allocations_first(allocs, new_start, new_end) ==
    LET Test(alloc) == RangeOverlaps(alloc, new_start, new_end)
        overlapping == SelectSeq(allocs, Test)
    IN  IF overlapping = <<>> THEN <<>> ELSE <<Head(overlapping)>>

get_overlapping_allocations(allocs, new_start, new_end) ==
    LET Test(alloc) == RangeOverlaps(alloc, new_start, new_end)
    IN  SelectSeq(allocs, Test)

get_engineer_by_id(id) == id \in EngineerIds
get_project_by_id(id) == id \in ProjectIds

get_allocations_by_engineer_id(allocs, engineer_id) ==
    LET Test(a) == a.engineer_id = engineer_id
    IN  SelectSeq(allocs, Test)

\* Index of the first stored allocation with this id, 0 when there is none.
get_allocation_by_id(allocs, id) ==
    IF \E i \in 1 .. Len(allocs) : allocs[i].id = id
      THEN CHOOSE i \in 1 .. Len(allocs) :
             /\ allocs[i].id = id
             /\ \A j \in 1 .. (i - 1) : allocs[j].id # id
      ELSE 0

\* models/allocation.py: Allocation.is_active. `if self.end_date:` holds for
\* every datetime, so it tests that the end date is present.
is_active(alloc, on_date) ==
    IF alloc.end_date # None
      THEN alloc.start_date <= on_date /\ on_date <= alloc.end_date
      ELSE alloc.start_date <= on_date

\* `[alloc for alloc in all_allocations if alloc.is_active(on_date=today)]`
list_allocations(allocs, today) ==
    LET Test(alloc) == is_active(alloc, today)
    IN  SelectSeq(allocs, Test)

PercentageOutOfRange_le(allocation_percentage) ==
    allocation_percentage <= 1 \/ allocation_percentage > 100

\* `allocation_percentage < 1 or allocation_percentage > 100`
PercentageOutOfRange(allocation_percentage) ==
    allocation_percentage < 1 \/ allocation_percentage > 100

EndNotAfterStart_lt(parsed_end_date, parsed_start_date) ==
    parsed_end_date < parsed_start_date

\* `parsed_end_date <= parsed_start_date`
EndNotAfterStart(parsed_end_date, parsed_start_date) ==
    parsed_end_date <= parsed_start_date

OverAllocated_ge(overlapping_allocations, allocation_percentage) ==
    /\ overlapping_allocations # <<>>
    /\ SumPercentages(overlapping_allocations) + allocation_percentage >= 100

\* `if overlapping_allocations:` ... `if total_allocation > 100:`
OverAllocated(overlapping_allocations, allocation_percentage) ==
    /\ overlapping_allocations # <<>>
    /\ SumPercentages(overlapping_allocations) + allocation_percentage > 100

\* `next((a for a in overlapping if a.project_id == project_id), None) is not None`
HasDuplicate(overlapping_allocations, project_id) ==
    \E i \in 1 .. Len(overlapping_allocations) :
        overlapping_allocations[i].project_id = project_id

\* `return (False, message, None)`: the store is the one the call found.
Rejected(allocs, message) ==
    [success |-> FALSE, message |-> message, allocation |-> NoAllocation,
     allocations |-> allocs]

\* ------------------------------------------------ allocate_engineer_async
allocate_checked_dup_first(allocs, engineer_id, project_id, allocation_percentage, parsed_start_date, parsed_end_date, new_id) ==
    LET existing_allocations == get_allocations_by_engineer_id(allocs, engineer_id)
        overlapping_allocations ==
            get_overlapping_allocations(existing_allocations, parsed_start_date, parsed_end_date)
    IN
    IF HasDuplicate(overlapping_allocations, project_id)
      THEN Rejected(allocs, "already allocated")
    ELSE IF OverAllocated(overlapping_allocations, allocation_percentage)
      THEN Rejected(allocs, "over-allocated")
    ELSE
    LET new_allocation == Allocation(new_id, engineer_id, project_id,
                                     allocation_percentage, parsed_start_date, parsed_end_date)
    IN  [success |-> TRUE, message |-> "allocated", allocation |-> new_allocation,
         allocations |-> Append(allocs, new_allocation)]

\* Validation 5, validation 6 and the creation of the record.
allocate_checked(allocs, engineer_id, project_id, allocation_percentage, parsed_start_date, parsed_end_date, new_id) ==
    LET existing_allocations == get_allocations_by_engineer_id(allocs, engineer_id)
        overlapping_allocations ==
            get_overlapping_allocations(existing_allocations, parsed_start_date, parsed_end_date)
    IN
    IF OverAllocated(overlapping_allocations, allocation_percentage)
      THEN Rejected(allocs, "over-allocated")
    ELSE IF HasDuplicate(overlapping_allocations, project_id)
      THEN Rejected(allocs, "already allocated")
    ELSE
    LET new_allocation == Allocation(new_id, engineer_id, project_id,
                                     allocation_percentage, parsed_start_date, parsed_end_date)
    IN  [success |-> TRUE, message |-> "allocated", allocation |-> new_allocation,
         allocations |-> Append(allocs, new_allocation)]

\* today: what datetime.today() returns if read; new_id: what uuid4 yields.
allocate_engineer_async(allocs, engineer_id, project_id, allocation_percentage, start_date, end_date, today, new_id) ==
    IF ~get_engineer_by_id(engineer_id)
      THEN Rejected(allocs, "engineer not found")
    ELSE IF ~get_project_by_id(project_id)
      THEN Rejected(allocs, "project not found")
    ELSE IF PercentageOutOfRange(allocation_percentage)
      THEN Rejected(allocs, "percentage out of range")
    ELSE IF ~IsBlank(start_date) /\ RaisesValueError(start_date)
      THEN Rejected(allocs, "invalid start date")
    ELSE
    LET parsed_start_date == IF IsBlank(start_date) THEN today ELSE strptime(start_date)
    IN
    IF ~IsBlank(end_date) /\ RaisesValueError(end_date)
      THEN Rejected(allocs, "invalid end date")
    ELSE
    LET parsed_end_date == IF IsBlank(end_date) THEN None ELSE strptime(end_date)
    IN
    IF parsed_end_date # None /\ EndNotAfterStart(parsed_end_date, parsed_start_date)
      THEN Rejected(allocs, "end date not after start date")
    ELSE allocate_checked(allocs, engineer_id, project_id, allocation_percentage,
                          parsed_start_date, parsed_end_date, new_id)

\* ------------------------------------------------ update_allocation_async
update_end_date_or_none(allocation, end_date) ==
    IF IsBlank(end_date) THEN None ELSE strptime(end_date)

\* `parsed_end_date = allocation.end_date`, replaced when an end date is given.
update_end_date(allocation, end_date) ==
    IF IsBlank(end_date) THEN allocation.end_date ELSE strptime(end_date)

\* `parsed_start_date = allocation.start_date`, replaced when a start date is given.
update_start_date(allocation, start_date) ==
    IF IsBlank(start_date) THEN allocation.start_date ELSE strptime(start_date)

\* `[a for a in existing_allocations if a.id != allocation_id]`
exclude_current(existing_allocations, allocation_id) ==
    LET Test(a) == a.id # allocation_id
    IN  SelectSeq(existing_allocations, Test)

update_checked_assign_first(allocs, idx, allocation_id, new_allocation_percentage, parsed_start_date, parsed_end_date) ==
    LET allocation == allocs[idx]
        existing_allocations ==
            exclude_current(get_allocations_by_engineer_id(allocs, allocation.engineer_id),
                            allocation_id)
        overlapping_allocations ==
            get_overlapping_allocations(existing_allocations, parsed_start_date, parsed_end_date)
        updated == [allocation EXCEPT !.allocation_percentage = new_allocation_percentage,
                                      !.start_date = parsed_start_date,
                                      !.end_date = parsed_end_date]
        assigned == [allocs EXCEPT ![idx] = updated]
    IN
    IF OverAllocated(overlapping_allocations, new_allocation_percentage)
      THEN Rejected(assigned, "over-allocated")
    ELSE IF HasDuplicate(overlapping_allocations, allocation.project_id)
      THEN Rejected(assigned, "already allocated")
    ELSE [success |-> TRUE, message |-> "updated", allocation |-> updated,
          allocations |-> assigned]

\* The overlap check, the duplicate check and the assignment to the record.
update_checked(allocs, idx, allocation_id, new_allocation_percentage, parsed_start_date, parsed_end_date) ==
    LET allocation == allocs[idx]
        existing_allocations ==
            exclude_current(get_allocations_by_engineer_id(allocs, allocation.engineer_id),
                            allocation_id)
        overlapping_allocations ==
            get_overlapping_allocations(existing_allocations, parsed_start_date, parsed_end_date)
    IN
    IF OverAllocated(overlapping_allocations, new_allocation_percentage)
      THEN Rejected(allocs, "over-allocated")
    ELSE IF HasDuplicate(overlapping_allocations, allocation.project_id)
      THEN Rejected(allocs, "already allocated")
    ELSE
    LET updated == [allocation EXCEPT !.allocation_percentage = new_allocation_percentage,
                                      !.start_date = parsed_start_date,
                                      !.end_date = parsed_end_date]
    IN  [success |-> TRUE, message |-> "updated", allocation |-> updated,
         allocations |-> [allocs EXCEPT ![idx] = updated]]

update_validated_end_given(allocs, idx, allocation_id, allocation_percentage, start_date, end_date) ==
    LET allocation == allocs[idx]
    IN
    IF ~IsBlank(start_date) /\ RaisesValueError(start_date)
      THEN Rejected(allocs, "invalid start date")
    ELSE IF ~IsBlank(end_date) /\ RaisesValueError(end_date)
      THEN Rejected(allocs, "invalid end date")
    ELSE
    LET parsed_start_date == update_start_date(allocation, start_date)
        parsed_end_date == update_end_date(allocation, end_date)
    IN
    IF ~IsBlank(end_date) /\ EndNotAfterStart(parsed_end_date, parsed_start_date)
      THEN Rejected(allocs, "end date not after start date")
    ELSE IF allocation_percentage # None /\ PercentageOutOfRange(allocation_percentage)
      THEN Rejected(allocs, "percentage out of range")
    ELSE
    LET new_allocation_percentage ==
            IF allocation_percentage # None THEN allocation_percentage
            ELSE allocation.allocation_percentage
    IN  update_checked(allocs, idx, allocation_id, new_allocation_percentage,
                       parsed_start_date, parsed_end_date)

update_validated_percentage_first(allocs, idx, allocation_id, allocation_percentage, start_date, end_date) ==
    LET allocation == allocs[idx]
    IN
    IF allocation_percentage # None /\ PercentageOutOfRange(allocation_percentage)
      THEN Rejected(allocs, "percentage out of range")
    ELSE IF ~IsBlank(start_date) /\ RaisesValueError(start_date)
      THEN Rejected(allocs, "invalid start date")
    ELSE IF ~IsBlank(end_date) /\ RaisesValueError(end_date)
      THEN Rejected(allocs, "invalid end date")
    ELSE
    LET parsed_start_date == update_start_date(allocation, start_date)
        parsed_end_date == update_end_date(allocation, end_date)
    IN
    IF parsed_end_date # None /\ EndNotAfterStart(parsed_end_date, parsed_start_date)
      THEN Rejected(allocs, "end date not after start date")
    ELSE
    LET new_allocation_percentage ==
            IF allocation_percentage # None THEN allocation_percentage
            ELSE allocation.allocation_percentage
    IN  update_checked(allocs, idx, allocation_id, new_allocation_percentage,
                       parsed_start_date, parsed_end_date)

\* The date and percentage validation of the allocation found at idx.
update_validated(allocs, idx, allocation_id, allocation_percentage, start_date, end_date) ==
    LET allocation == allocs[idx]
    IN
    IF ~IsBlank(start_date) /\ RaisesValueError(start_date)
      THEN Rejected(allocs, "invalid start date")
    ELSE IF ~IsBlank(end_date) /\ RaisesValueError(end_date)
      THEN Rejected(allocs, "invalid end date")
    ELSE
    LET parsed_start_date == update_start_date(allocation, start_date)
        parsed_end_date == update_end_date(allocation, end_date)
    IN
    IF parsed_end_date # None /\ EndNotAfterStart(parsed_end_date, parsed_start_date)
      THEN Rejected(allocs, "end date not after start date")
    ELSE IF allocation_percentage # None /\ PercentageOutOfRange(allocation_percentage)
      THEN Rejected(allocs, "percentage out of range")
    ELSE
    LET new_allocation_percentage ==
            IF allocation_percentage # None THEN allocation_percentage
            ELSE allocation.allocation_percentage
    IN  update_checked(allocs, idx, allocation_id, new_allocation_percentage,
                       parsed_start_date, parsed_end_date)

update_allocation_async(allocs, allocation_id, allocation_percentage, start_date, end_date) ==
    LET idx == get_allocation_by_id(allocs, allocation_id)
    IN
    IF idx = 0
      THEN Rejected(allocs, "allocation not found")
    ELSE IF \/ ~get_engineer_by_id(allocs[idx].engineer_id)
            \/ ~get_project_by_id(allocs[idx].project_id)
      THEN Rejected(allocs, "associated engineer or project not found")
    ELSE update_validated(allocs, idx, allocation_id, allocation_percentage,
                          start_date, end_date)

\* ------------------------------------------------------------ the calls
\* The last tool call: the arguments the client sent and the clock value read.
NoCall ==
    [tool |-> "none", engineer_id |-> "", project_id |-> "", allocation_id |-> 0,
     allocation_percentage |-> None, start_date |-> BlankText, end_date |-> BlankText,
     today |-> None]

NoResult == [success |-> FALSE, message |-> "", allocation |-> NoAllocation]

\* The clients whose tool calls can be in flight together.
TaskIds == {"t1", "t2"}

\* A client with no call in flight. snapshot is the store as it was when the
\* call was submitted.
NoTask == [pc |-> "idle", call |-> NoCall, snapshot |-> <<>>, result |-> NoResult]

Init ==
    /\ allocations = <<>>
    /\ pc = "idle"
    /\ call = NoCall
    /\ result = NoResult
    /\ before = <<>>
    /\ listing = <<>>
    /\ tasks = [t \in TaskIds |-> NoTask]

\* mcp_tools.allocate_engineer: the client's call and the whole handler, the
\* client choosing the percentage among percentages.
\* datetime.today() is read only for a blank start date (today is None when
\* it is not read); new_id is what uuid4 yields if the record is created.
AllocateEngineerOver(percentages) ==
    /\ pc = "idle"
    /\ \E engineer_id \in EngineerArgs, project_id \in ProjectArgs,
          allocation_percentage \in percentages, start_date \in DateTexts, end_date \in DateTexts :
       \E today \in (IF IsBlank(start_date) THEN Instants ELSE {None}), new_id \in AllocIds :
         LET r == allocate_engineer_async(allocations, engineer_id, project_id,
                                          allocation_percentage, start_date, end_date,
                                          today, new_id)
         IN  /\ Len(r.allocations) <= MaxAllocs
             /\ allocations' = r.allocations
             /\ result' = [success |-> r.success, message |-> r.message,
                           allocation |-> r.allocation]
             /\ call' = [NoCall EXCEPT !.tool = "allocate_engineer",
                                       !.engineer_id = engineer_id,
                                       !.project_id = project_id,
                                       !.allocation_percentage = allocation_percentage,
                                       !.start_date = start_date, !.end_date = end_date,
                                       !.today = today]
    /\ before' = allocations
    /\ pc' = "returned"
    /\ UNCHANGED <<listing, tasks>>

AllocateEngineer == AllocateEngineerOver(PctArgs)

\* mcp_tools.update_allocation: the client's call and the whole handler, the
\* client choosing the percentage (None: omitted) among percentages.
UpdateAllocationOver(percentages) ==
    /\ pc = "idle"
    /\ \E allocation_id \in AllocIdArgs, allocation_percentage \in percentages,
          start_date \in DateTexts, end_date \in DateTexts :
         LET r == update_allocation_async(allocations, allocation_id,
                                          allocation_percentage, start_date, end_date)
         IN  /\ allocations' = r.allocations
             /\ result' = [success |-> r.success, message |-> r.message,
                           allocation |-> r.allocation]
             /\ call' = [NoCall EXCEPT !.tool = "update_allocation",
                                       !.allocation_id = allocation_id,
                                       !.allocation_percentage = allocation_percentage,
                                       !.start_date = start_date, !.end_date = end_date]
    /\ before' = allocations
    /\ pc' = "returned"
    /\ UNCHANGED <<listing, tasks>>

UpdateAllocation == UpdateAllocationOver(OptPctArgs)

\* mcp_tools.list_allocations: the client's call and the whole handler;
\* today is what datetime.now() yields.
ListAllocations ==
    /\ pc = "idle"
    /\ \E today \in Instants :
         /\ listing' = list_allocations(allocations, today)
         /\ call' = [NoCall EXCEPT !.tool = "list_allocations", !.today = today]
    /\ before' = allocations
    /\ pc' = "returned"
    /\ UNCHANGED <<allocations, result, tasks>>

\* The client takes the response; the next call can be made.
Return ==
    /\ pc = "returned"
    /\ pc' = "idle"
    /\ call' = NoCall
    /\ result' = NoResult
    /\ before' = <<>>
    /\ listing' = <<>>
    /\ UNCHANGED <<allocations, tasks>>

Next ==
    \/ AllocateEngineer
    \/ UpdateAllocation
    \/ ListAllocations
    \/ Return

Spec == Init /\ [][Next]_vars

\* The same service called with the percentages at and next to the limits
\* of lines 171 and 317: 0 and 1, 100 and 101.
BoundaryPctArgs == {0, 1, 100, 101}

AllocateEngineerBoundary == AllocateEngineerOver(BoundaryPctArgs)
UpdateAllocationBoundary == UpdateAllocationOver(BoundaryPctArgs \cup {None})

NextBoundary ==
    \/ AllocateEngineerBoundary
    \/ UpdateAllocationBoundary
    \/ Return

SpecBoundary == Init /\ [][NextBoundary]_vars

\* =====================================================================
\* Tool calls in flight together. mcp.run (main.py) serves the tools on one
\* asyncio event loop, and each call is a task of that loop. A task gives
\* the loop up only at an await that suspends. Every await of the two
\* handlers (mcp_tools.py 47 and 172; allocation_service.py 161, 166, 195,
\* 284, 289, 290, 323) is on a coroutine of lines 63-120 or on the service
\* method itself, none of which awaits anything that suspends: a handler,
\* once the loop starts it, runs to its return.
\* =====================================================================
\* The calls the clients make while another call is in flight.
ConcurrentPctArgs == {50, 100}

AllocateCalls ==
    {[NoCall EXCEPT !.tool = "allocate_engineer", !.engineer_id = e, !.project_id = p,
                    !.allocation_percentage = n, !.start_date = start_date,
                    !.end_date = end_date] :
        e \in EngineerIds, p \in ProjectIds, n \in ConcurrentPctArgs,
        start_date \in DateTexts, end_date \in DateTexts}

UpdateCalls ==
    {[NoCall EXCEPT !.tool = "update_allocation", !.allocation_id = i,
                    !.allocation_percentage = n] :
        i \in AllocIds, n \in ConcurrentPctArgs}

\* Allocate calls with a start date and no end date or a later one, and
\* update calls that change the percentage.
ConcurrentCalls ==
    {c \in AllocateCalls :
        /\ c.start_date.kind = "date"
        /\ \/ IsBlank(c.end_date)
           \/ c.end_date.kind = "date" /\ c.end_date.day > c.start_date.day}
    \cup UpdateCalls

Outcome(r) == [success |-> r.success, message |-> r.message, allocation |-> r.allocation]

\* What the handler of call c computes on the store it reads.
handle_call(allocs, c, new_id) ==
    IF c.tool = "allocate_engineer"
      THEN allocate_engineer_async(allocs, c.engineer_id, c.project_id,
                                   c.allocation_percentage, c.start_date, c.end_date,
                                   c.today, new_id)
      ELSE update_allocation_async(allocs, c.allocation_id, c.allocation_percentage,
                                   c.start_date, c.end_date)

StoreSeenBy_snapshot(t) == tasks[t].snapshot

\* The list the handler of task t reads its existing allocations from
\* (lines 195 and 323): self._allocations as it is when the handler runs.
StoreSeenBy(t) == allocations

\* What the handler writes: `self._allocations.append(new_allocation)`, or the
\* assignments to the fields of the record it found.
Commit(store, seen, c, r) ==
    IF ~r.success THEN store
    ELSE IF c.tool = "allocate_engineer" THEN Append(store, r.allocation)
    ELSE [store EXCEPT ![get_allocation_by_id(seen, c.allocation_id)] = r.allocation]

\* A client sends a tool call: the loop gets a task for it. before keeps the
\* store as it was when no call was in flight.
Submit(t) ==
    /\ tasks[t].pc = "idle"
    /\ \E c \in ConcurrentCalls :
         tasks' = [tasks EXCEPT ![t] = [pc |-> "in_flight", call |-> c,
                                        snapshot |-> allocations, result |-> NoResult]]
    /\ before' = IF \A u \in TaskIds : tasks[u].pc = "idle" THEN allocations ELSE before
    /\ UNCHANGED <<allocations, pc, call, result, listing>>

\* The loop runs the handler of one of the tasks in flight, whichever it picks.
Handle(t) ==
    /\ tasks[t].pc = "in_flight"
    /\ \E new_id \in AllocIds :
         LET c == tasks[t].call
             seen == StoreSeenBy(t)
             r == handle_call(seen, c, new_id)
         IN  /\ Len(Commit(allocations, seen, c, r)) <= MaxAllocs
             /\ allocations' = Commit(allocations, seen, c, r)
             /\ tasks' = [tasks EXCEPT ![t].pc = "returned", ![t].result = Outcome(r)]
    /\ UNCHANGED <<pc, call, result, before, listing>>

\* The clients take their responses.
Collect ==
    /\ \A t \in TaskIds : tasks[t].pc = "returned"
    /\ tasks' = [t \in TaskIds |-> NoTask]
    /\ before' = <<>>
    /\ UNCHANGED <<allocations, pc, call, result, listing>>

NextConcurrent ==
    \/ \E t \in TaskIds : Submit(t)
    \/ \E t \in TaskIds : Handle(t)
    \/ Collect

SpecConcurrent == Init /\ [][NextConcurrent]_vars

\* =====================================================================
\* The vocabulary of the claims, stated on index sets of a store and not
\* through the operators of the service.
\* =====================================================================
Indices(store) == 1 .. Len(store)

\* Two ranges overlap per the four-case table: each starts before the
\* other ends, an absent end never being reached.
Overlap(s1, e1, s2, e2) ==
    /\ (e2 = None \/ s1 < e2)
    /\ (e1 = None \/ s2 < e1)

RecordsOverlap(a, b) == Overlap(a.start_date, a.end_date, b.start_date, b.end_date)

\* The range of a contains the instant d.
Contains(a, d) == a.start_date <= d /\ (a.end_date = None \/ d < a.end_date)

RECURSIVE SumAt(_, _)
\* The sum of the percentages of the records of store at the indices in S.
SumAt(store, S) ==
    IF S = {} THEN 0
    ELSE LET i == CHOOSE x \in S : TRUE
         IN  store[i].allocation_percentage + SumAt(store, S \ {i})

Returned(tool) == pc = "returned" /\ call.tool = tool

\* The start and end an allocate call asks for, once normalized.
CallStart == IF IsBlank(call.start_date) THEN call.today ELSE 2 * call.start_date.day
CallEnd == IF IsBlank(call.end_date) THEN None ELSE 2 * call.end_date.day

CallStartParses == call.start_date.kind \in {"blank", "date"}
CallEndParses == call.end_date.kind \in {"blank", "date"}
CallPercentageInRange == call.allocation_percentage \in 1 .. 100

\* The stored allocations of the call's engineer that overlap the call's range.
CreateOverlapping ==
    {i \in Indices(before) :
        /\ before[i].engineer_id = call.engineer_id
        /\ Overlap(CallStart, CallEnd, before[i].start_date, before[i].end_date)}

CreateOverCapacity ==
    SumAt(before, CreateOverlapping) + call.allocation_percentage > 100

CreateDuplicate ==
    \E i \in CreateOverlapping : before[i].project_id = call.project_id

\* ---------------------------------------------------------------------
\* C1: for every engineer, any two distinct stored allocations of that
\* engineer whose date ranges overlap have percentages summing to at most 100.
\* ---------------------------------------------------------------------
C1_PairwiseCapacity ==
    \A i, j \in Indices(allocations) :
        (/\ i # j
         /\ allocations[i].engineer_id = allocations[j].engineer_id
         /\ RecordsOverlap(allocations[i], allocations[j]))
        => allocations[i].allocation_percentage + allocations[j].allocation_percentage <= 100

\* ---------------------------------------------------------------------
\* C2: for every engineer and every instant d, the percentages of that
\* engineer's stored allocations whose range contains d sum to at most 100.
\* ---------------------------------------------------------------------
C2_PointwiseCapacity ==
    \A e \in EngineerIds, d \in Instants :
        SumAt(allocations,
              {i \in Indices(allocations) :
                  allocations[i].engineer_id = e /\ Contains(allocations[i], d)}) <= 100

\* ---------------------------------------------------------------------
\* C3: no two distinct stored allocations of the same engineer and the same
\* project have overlapping date ranges.
\* ---------------------------------------------------------------------
C3_NoDuplicateProject ==
    \A i, j \in Indices(allocations) :
        (/\ i # j
         /\ allocations[i].engineer_id = allocations[j].engineer_id
         /\ allocations[i].project_id = allocations[j].project_id)
        => ~RecordsOverlap(allocations[i], allocations[j])

\* ---------------------------------------------------------------------
\* C4: a rejected allocate or update call returns success = false with no
\* record and leaves the allocation store exactly as it was before the call.
\* ---------------------------------------------------------------------
C4_RejectionLeavesStore ==
    (pc = "returned" /\ ~result.success)
        => (allocations = before /\ result.allocation = NoAllocation)

\* A late rejection on a store that holds records: an update refused for
\* capacity or for a duplicate project.
C4_Witness ==
    /\ Returned("update_allocation")
    /\ ~result.success
    /\ result.message \in {"over-allocated", "already allocated"}
    /\ before # <<>>

\* ---------------------------------------------------------------------
\* C5: every stored allocation has a percentage in 1..100 and, when it has
\* an end date, an end date strictly after its start date.
\* ---------------------------------------------------------------------
C5_RecordBounds ==
    \A i \in Indices(allocations) :
        /\ allocations[i].allocation_percentage \in 1 .. 100
        /\ (allocations[i].end_date # None
              => allocations[i].end_date > allocations[i].start_date)

\* An accepted update that moved the dates of a stored bounded record.
C5_Witness ==
    /\ Returned("update_allocation")
    /\ result.success
    /\ result.allocation.end_date # None
    /\ ~IsBlank(call.start_date)
    /\ allocations # before

\* The message of the first failing check of a list of <<fails, message>>
\* pairs, or `accepted` when none fails.
FirstFailure(checks, accepted) ==
    IF \E i \in 1 .. Len(checks) : checks[i][1]
      THEN checks[CHOOSE i \in 1 .. Len(checks) :
                    checks[i][1] /\ \A j \in 1 .. (i - 1) : ~checks[j][1]][2]
      ELSE accepted

\* ---------------------------------------------------------------------
\* C6: allocate reports the first failing check in the order: engineer
\* exists, project exists, percentage in 1..100, start date parses, end date
\* parses, end strictly after start, capacity, duplicate project; so a
\* candidate that both exceeds capacity and duplicates is rejected for capacity.
\* ---------------------------------------------------------------------
C6_CreateCheckOrder ==
    Returned("allocate_engineer") =>
        result.message =
            FirstFailure(<< <<call.engineer_id \notin EngineerIds, "engineer not found">>,
                            <<call.project_id \notin ProjectIds, "project not found">>,
                            <<~CallPercentageInRange, "percentage out of range">>,
                            <<~CallStartParses, "invalid start date">>,
                            <<~CallEndParses, "invalid end date">>,
                            <<CallEnd # None /\ CallEnd <= CallStart,
                              "end date not after start date">>,
                            <<CreateOverCapacity, "over-allocated">>,
                            <<CreateDuplicate, "already allocated">> >>,
                         "allocated")

\* A valid candidate that exceeds capacity and duplicates an overlapping
\* allocation of its project, rejected for capacity.
C6_Witness ==
    /\ Returned("allocate_engineer")
    /\ result.message = "over-allocated"
    /\ CreateOverCapacity
    /\ CreateDuplicate

\* ------------------------------------------------ the update call's terms
\* The record an update call addresses: the first with the call's identifier.
TargetFound == \E i \in Indices(before) : before[i].id = call.allocation_id
Target ==
    CHOOSE i \in Indices(before) :
        /\ before[i].id = call.allocation_id
        /\ \A j \in 1 .. (i - 1) : before[j].id # call.allocation_id

\* The values the update call asks for, merged with the stored ones.
UpdateStart ==
    IF IsBlank(call.start_date) THEN before[Target].start_date ELSE 2 * call.start_date.day
UpdateEnd ==
    IF IsBlank(call.end_date) THEN before[Target].end_date ELSE 2 * call.end_date.day
UpdatePercentage ==
    IF call.allocation_percentage = None THEN before[Target].allocation_percentage
    ELSE call.allocation_percentage
UpdatePercentageOutOfRange ==
    call.allocation_percentage # None /\ call.allocation_percentage \notin 1 .. 100

\* The other stored allocations of the target's engineer, told apart from the
\* target by identifier, that overlap the updated range.
UpdateOverlappingById ==
    {i \in Indices(before) :
        /\ before[i].engineer_id = before[Target].engineer_id
        /\ before[i].id # call.allocation_id
        /\ Overlap(UpdateStart, UpdateEnd, before[i].start_date, before[i].end_date)}

\* The other stored allocations of the target's engineer (every record but
\* the target itself) that overlap the updated range.
UpdateOverlappingOthers ==
    {i \in Indices(before) :
        /\ i # Target
        /\ before[i].engineer_id = before[Target].engineer_id
        /\ Overlap(UpdateStart, UpdateEnd, before[i].start_date, before[i].end_date)}

UpdateOverCapacity(others) == SumAt(before, others) + UpdatePercentage > 100
UpdateDuplicate(others) ==
    \E i \in others : before[i].project_id = before[Target].project_id

\* ---------------------------------------------------------------------
\* C7 (as claimed): once the allocation is found, update reports the first
\* failing check in the create path's order: percentage range, start date
\* parses, end date parses, end strictly after start, capacity, duplicate.
\* ---------------------------------------------------------------------
C7_UpdateCheckOrderAsCreate ==
    (Returned("update_allocation") /\ TargetFound) =>
        result.message =
            FirstFailure(<< <<UpdatePercentageOutOfRange, "percentage out of range">>,
                            <<~CallStartParses, "invalid start date">>,
                            <<~CallEndParses, "invalid end date">>,
                            <<UpdateEnd # None /\ UpdateEnd <= UpdateStart,
                              "end date not after start date">>,
                            <<UpdateOverCapacity(UpdateOverlappingById), "over-allocated">>,
                            <<UpdateDuplicate(UpdateOverlappingById), "already allocated">> >>,
                         "updated")

\* ---------------------------------------------------------------------
\* C7 (amended): once the allocation is found, update reports the first
\* failing check in the order: start date parses, end date parses, end
\* strictly after start, percentage range, capacity, duplicate project
\* (capacity and duplicate over the engineer's allocations with another id).
\* ---------------------------------------------------------------------
C7_UpdateCheckOrder ==
    (Returned("update_allocation") /\ TargetFound) =>
        result.message =
            FirstFailure(<< <<~CallStartParses, "invalid start date">>,
                            <<~CallEndParses, "invalid end date">>,
                            <<UpdateEnd # None /\ UpdateEnd <= UpdateStart,
                              "end date not after start date">>,
                            <<UpdatePercentageOutOfRange, "percentage out of range">>,
                            <<UpdateOverCapacity(UpdateOverlappingById), "over-allocated">>,
                            <<UpdateDuplicate(UpdateOverlappingById), "already allocated">> >>,
                         "updated")

\* An update with an out-of-range percentage and a mis-ordered date,
\* rejected for the date.
C7_Witness ==
    /\ Returned("update_allocation")
    /\ TargetFound
    /\ UpdatePercentageOutOfRange
    /\ CallStartParses /\ CallEndParses
    /\ UpdateEnd # None /\ UpdateEnd <= UpdateStart
    /\ result.message = "end date not after start date"

\* ---------------------------------------------------------------------
\* C8: allocate is accepted iff engineer and project exist, the percentage
\* is in 1..100, the dates are blank or parse, the end is strictly after the
\* normalized start, the overlapping percentages plus the new one total at
\* most 100 and no overlapping allocation is for the same project; when
\* accepted the store is the store before plus one new record with the given
\* engineer, project, percentage, normalized start and end.
\* ---------------------------------------------------------------------
C8_CreateAcceptance ==
    Returned("allocate_engineer") =>
        /\ result.success <=>
              /\ call.engineer_id \in EngineerIds
              /\ call.project_id \in ProjectIds
              /\ CallPercentageInRange
              /\ CallStartParses
              /\ CallEndParses
              /\ (CallEnd = None \/ CallEnd > CallStart)
              /\ ~CreateOverCapacity
              /\ ~CreateDuplicate
        /\ result.success =>
              /\ Len(allocations) = Len(before) + 1
              /\ SubSeq(allocations, 1, Len(before)) = before
              /\ LET new == allocations[Len(allocations)]
                 IN  /\ new.engineer_id = call.engineer_id
                     /\ new.project_id = call.project_id
                     /\ new.allocation_percentage = call.allocation_percentage
                     /\ new.start_date = CallStart
                     /\ new.end_date = CallEnd
                     /\ result.allocation = new

\* An accepted candidate with a blank start date whose percentage brings the
\* overlapping total to exactly 100.
C8_Witness ==
    /\ Returned("allocate_engineer")
    /\ result.success
    /\ IsBlank(call.start_date)
    /\ CreateOverlapping # {}
    /\ SumAt(before, CreateOverlapping) + call.allocation_percentage = 100

\* ---------------------------------------------------------------------
\* C9: update judges the allocation only against the engineer's other
\* stored allocations: with otherwise valid inputs it is accepted iff the
\* percentages of the other allocations overlapping the new range plus the
\* new percentage total at most 100 and none of them is for the same project.
\* ---------------------------------------------------------------------
C9_UpdateAgainstOthers ==
    (/\ Returned("update_allocation")
     /\ TargetFound
     /\ CallStartParses /\ CallEndParses
     /\ (UpdateEnd = None \/ UpdateEnd > UpdateStart)
     /\ ~UpdatePercentageOutOfRange)
    => (result.success <=>
          /\ ~UpdateOverCapacity(UpdateOverlappingOthers)
          /\ ~UpdateDuplicate(UpdateOverlappingOthers))

\* ---------------------------------------------------------------------
\* C10: an accepted update changes only percentage, start and end of the
\* targeted record; identifier, engineer and project stay, each omitted or
\* blank argument keeps the stored value, and every other record and the
\* number of records are unchanged.
\* ---------------------------------------------------------------------
C10_UpdateFrame ==
    (Returned("update_allocation") /\ result.success) =>
        /\ TargetFound
        /\ Len(allocations) = Len(before)
        /\ \A i \in Indices(before) : i # Target => allocations[i] = before[i]
        /\ allocations[Target].id = before[Target].id
        /\ allocations[Target].engineer_id = before[Target].engineer_id
        /\ allocations[Target].project_id = before[Target].project_id
        /\ allocations[Target].allocation_percentage = UpdatePercentage
        /\ allocations[Target].start_date = UpdateStart
        /\ allocations[Target].end_date = UpdateEnd
        /\ result.allocation = allocations[Target]

\* An accepted update of a bounded allocation that gives a new percentage
\* and omits both dates, with other records in the store.
C10_Witness ==
    /\ Returned("update_allocation")
    /\ result.success
    /\ IsBlank(call.start_date) /\ IsBlank(call.end_date)
    /\ before[Target].end_date # None
    /\ call.allocation_percentage # None
    /\ call.allocation_percentage # before[Target].allocation_percentage
    /\ Len(before) > 1

\* ------------------------------------------------- the overlap engine's terms
\* The candidate ranges one can hand to the overlap engine.
CandidateStarts == Instants
CandidateEnds == Instants \cup {None}

\* The four-case table: a candidate range against an existing one.
CaseTable(candidateStart, candidateEnd, existingStart, existingEnd) ==
    \/ /\ candidateEnd # None /\ existingEnd # None
       /\ candidateStart < existingEnd /\ existingStart < candidateEnd
    \/ /\ candidateEnd = None /\ existingEnd # None
       /\ candidateStart < existingEnd
    \/ /\ candidateEnd # None /\ existingEnd = None
       /\ candidateEnd > existingStart
    \/ /\ candidateEnd = None /\ existingEnd = None

\* The indices of store whose records satisfy the table against a candidate.
TableIndices(store, candidateStart, candidateEnd) ==
    {i \in Indices(store) :
        CaseTable(candidateStart, candidateEnd, store[i].start_date, store[i].end_date)}

\* The k-th smallest element of the index set K.
KthOf(K, k) == CHOOSE i \in K : Cardinality({j \in K : j <= i}) = k

\* Two ranges only touch: one's end equals the other's start.
Touches(candidateStart, candidateEnd, existingStart, existingEnd) ==
    \/ existingEnd # None /\ existingEnd = candidateStart
    \/ candidateEnd # None /\ candidateEnd = existingStart

\* ---------------------------------------------------------------------
\* C11: for every candidate range the overlap engine returns, in input
\* order, exactly the stored allocations that satisfy the four-case table,
\* and never one whose range only touches the candidate range. Every
\* store a call leaves is the store of the idle state that follows it, so
\* the engine is applied to the stores of the idle states.
\* ---------------------------------------------------------------------
C11_OverlapEngine ==
    pc = "idle" =>
    \A candidateStart \in CandidateStarts, candidateEnd \in CandidateEnds :
        LET reported == get_overlapping_allocations(allocations, candidateStart, candidateEnd)
            K == TableIndices(allocations, candidateStart, candidateEnd)
        IN  /\ Len(reported) = Cardinality(K)
            /\ \A k \in 1 .. Len(reported) : reported[k] = allocations[KthOf(K, k)]
            /\ \A i \in Indices(allocations) :
                 Touches(candidateStart, candidateEnd,
                         allocations[i].start_date, allocations[i].end_date)
                 => \A k \in 1 .. Len(reported) : reported[k] # allocations[i]

\* An allocate call for 100% is accepted although a 100% allocation of the
\* engineer ends at the instant the new one starts: the engine was applied
\* to a touching range and reported nothing.
C11_Witness ==
    /\ Returned("allocate_engineer")
    /\ result.success
    /\ call.allocation_percentage = 100
    /\ \E i \in Indices(before) :
         /\ before[i].engineer_id = call.engineer_id
         /\ before[i].allocation_percentage = 100
         /\ before[i].end_date = CallStart

\* -------------------------------------------------- valid dates of a call
CreateDatesValid ==
    /\ CallStartParses
    /\ CallEndParses
    /\ CallEnd = None \/ CallEnd > CallStart

UpdateDatesValid ==
    /\ CallStartParses
    /\ CallEndParses
    /\ UpdateEnd = None \/ UpdateEnd > UpdateStart

\* ---------------------------------------------------------------------
\* C12: for an existing engineer and project (allocate) or an existing
\* allocation (update) and valid dates, a supplied percentage below 1 or
\* above 100 is rejected as an invalid percentage and changes nothing, and
\* the percentages 1 and 100 are accepted whenever the capacity check and
\* the duplicate-project check against the engineer's other allocations
\* pass; 100 in particular when no other allocation overlaps the range.
\* ---------------------------------------------------------------------
C12_PercentageBounds ==
    /\ ( /\ Returned("allocate_engineer")
         /\ call.engineer_id \in EngineerIds
         /\ call.project_id \in ProjectIds
         /\ CreateDatesValid )
       => /\ ~CallPercentageInRange
             => /\ ~result.success
                /\ result.message = "percentage out of range"
                /\ allocations = before
          /\ ( /\ call.allocation_percentage \in {1, 100}
               /\ ~CreateOverCapacity
               /\ ~CreateDuplicate )
             => result.success
          /\ (call.allocation_percentage = 100 /\ CreateOverlapping = {})
             => result.success
    /\ (Returned("update_allocation") /\ TargetFound /\ UpdateDatesValid)
       => /\ UpdatePercentageOutOfRange
             => /\ ~result.success
                /\ result.message = "percentage out of range"
                /\ allocations = before
          /\ ( /\ call.allocation_percentage \in {1, 100}
               /\ ~UpdateOverCapacity(UpdateOverlappingOthers)
               /\ ~UpdateDuplicate(UpdateOverlappingOthers) )
             => result.success
          /\ (call.allocation_percentage = 100 /\ UpdateOverlappingOthers = {})
             => result.success

\* An update to 1% is accepted while another allocation of the engineer
\* overlaps the updated range, after an allocate call for 1% was accepted.
C12_Witness ==
    /\ Returned("update_allocation")
    /\ TargetFound
    /\ call.allocation_percentage = 1
    /\ result.success
    /\ UpdateOverlappingOthers # {}
    /\ \E i \in Indices(before) : i # Target /\ before[i].allocation_percentage = 1

\* ---------------------------------------------------------------------
\* C13: an allocate call for an existing engineer and project with a
\* percentage in range, and an update call for an existing allocation, is
\* rejected for its dates and changes nothing whenever its effective end
\* date is present and not after its effective start date; for update the
\* effective dates are the supplied ones merged with the stored ones.
\* ---------------------------------------------------------------------
C13_EndAfterStart ==
    /\ ( /\ Returned("allocate_engineer")
         /\ call.engineer_id \in EngineerIds
         /\ call.project_id \in ProjectIds
         /\ CallPercentageInRange
         /\ CallStartParses /\ CallEndParses
         /\ CallEnd # None /\ CallEnd <= CallStart )
       => /\ ~result.success
          /\ result.message = "end date not after start date"
          /\ allocations = before
    /\ ( /\ Returned("update_allocation")
         /\ TargetFound
         /\ CallStartParses /\ CallEndParses
         /\ UpdateEnd # None /\ UpdateEnd <= UpdateStart )
       => /\ ~result.success
          /\ result.message = "end date not after start date"
          /\ allocations = before

\* An update that supplies only a new start, at or after the stored end of
\* the allocation, is rejected for its dates.
C13_Witness ==
    /\ Returned("update_allocation")
    /\ TargetFound
    /\ IsBlank(call.end_date)
    /\ call.start_date.kind = "date"
    /\ before[Target].end_date # None
    /\ UpdateStart >= before[Target].end_date
    /\ result.message = "end date not after start date"

\* ---------------------------------------------------------------------
\* C14: no two stored allocations share an identifier: every accepted
\* allocate call stores its record under an identifier no stored record
\* has, so an identifier addresses exactly one record.
\* ---------------------------------------------------------------------
C14_UniqueIdentifiers ==
    /\ \A i, j \in Indices(allocations) :
         allocations[i].id = allocations[j].id => i = j
    /\ (Returned("allocate_engineer") /\ result.success)
       => \A i \in Indices(before) : before[i].id # result.allocation.id

\* ---------------------------------------------------------------------
\* C15: allocate and update calls are serialized. When the calls of two
\* clients have both returned, the store and the two responses are those
\* of running the two handlers one after the other, in one of the two
\* orders, from the store as it was before either ran: the checks of the
\* second are evaluated on the store the first one left. So two allocate
\* calls that are both accepted never leave two overlapping records of an
\* engineer that sum above 100 or are for the same project.
\* ---------------------------------------------------------------------
C15_Serialized ==
    (\A t \in TaskIds : tasks[t].pc = "returned") =>
        /\ \E t, u \in TaskIds :
             /\ t # u
             /\ \E id1, id2 \in AllocIds :
                  LET r1 == handle_call(before, tasks[t].call, id1)
                      r2 == handle_call(r1.allocations, tasks[u].call, id2)
                  IN  /\ tasks[t].result = Outcome(r1)
                      /\ tasks[u].result = Outcome(r2)
                      /\ allocations = r2.allocations
        /\ \A t, u \in TaskIds :
             ( /\ t # u
               /\ tasks[t].call.tool = "allocate_engineer" /\ tasks[t].result.success
               /\ tasks[u].call.tool = "allocate_engineer" /\ tasks[u].result.success
               /\ tasks[t].result.allocation.engineer_id = tasks[u].result.allocation.engineer_id
               /\ RecordsOverlap(tasks[t].result.allocation, tasks[u].result.allocation) )
             => /\ tasks[t].result.allocation.allocation_percentage
                   + tasks[u].result.allocation.allocation_percentage <= 100
                /\ tasks[t].result.allocation.project_id # tasks[u].result.allocation.project_id

\* Two calls were submitted on the same store and were in flight together;
\* one was accepted and changed the store, and the other, which the store
\* they were submitted on would have let pass, was rejected for capacity.
C15_Witness ==
    \E t, u \in TaskIds :
        /\ t # u
        /\ tasks[t].pc = "returned" /\ tasks[u].pc = "returned"
        /\ tasks[t].snapshot = before /\ tasks[u].snapshot = before
        /\ tasks[t].result.success
        /\ allocations # before
        /\ ~tasks[u].result.success
        /\ tasks[u].result.message = "over-allocated"
        /\ \E id \in AllocIds : handle_call(before, tasks[u].call, id).success

\* ------------------------------------------------------- the no-op update
\* The update call supplies nothing, or exactly the stored values.
UpdateIsNoOp ==
    /\ CallStartParses /\ CallEndParses
    /\ UpdateStart = before[Target].start_date
    /\ UpdateEnd = before[Target].end_date
    /\ UpdatePercentage = before[Target].allocation_percentage

\* The stored allocations of the engineer of record a, with another
\* identifier than a, that overlap the range of a.
OverlappingByIdOf(a) ==
    {i \in Indices(allocations) :
        /\ allocations[i].engineer_id = a.engineer_id
        /\ allocations[i].id # a.id
        /\ RecordsOverlap(a, allocations[i])}

\* ---------------------------------------------------------------------
\* C16 (as claimed): an update of a stored allocation that supplies no new
\* percentage, start or end, or exactly the stored values, is accepted and
\* leaves the store unchanged.
\* ---------------------------------------------------------------------
C16_NoOpUpdateAccepted ==
    (Returned("update_allocation") /\ TargetFound /\ UpdateIsNoOp)
    => (result.success /\ allocations = before)

\* ---------------------------------------------------------------------
\* C16 (amended): re-validation holds at creation or update time. Right
\* after an accepted allocate or update call, the allocation it created or
\* updated passes the update path's capacity and duplicate checks: the
\* engineer's allocations with another identifier that overlap its range
\* sum with its own percentage to at most 100, and none is for its project.
\* And an update that supplies nothing new, when accepted, leaves the store
\* unchanged.
\* ---------------------------------------------------------------------
C16_RevalidationAtOperation ==
    /\ ( /\ pc = "returned"
         /\ call.tool \in {"allocate_engineer", "update_allocation"}
         /\ result.success )
       => /\ SumAt(allocations, OverlappingByIdOf(result.allocation))
                + result.allocation.allocation_percentage <= 100
          /\ \A i \in OverlappingByIdOf(result.allocation) :
               allocations[i].project_id # result.allocation.project_id
    /\ ( /\ Returned("update_allocation")
         /\ TargetFound
         /\ UpdateIsNoOp
         /\ result.success )
       => allocations = before

\* An update that supplies nothing is accepted while another allocation of
\* the engineer, with another identifier, overlaps the allocation's range.
C16_Witness ==
    /\ Returned("update_allocation")
    /\ TargetFound
    /\ call.allocation_percentage = None
    /\ IsBlank(call.start_date) /\ IsBlank(call.end_date)
    /\ result.success
    /\ UpdateOverlappingById # {}

\* ---------------------------------------------------------------------
\* C17: whatever the current date, the allocations list_allocations reports
\* as active sum to at most 100 for each engineer, also when the current
\* date is the end date of one allocation and the start date of another.
\* ---------------------------------------------------------------------
C17_ActiveWithinCapacity ==
    Returned("list_allocations") =>
        \A e \in EngineerIds :
            SumAt(listing, {i \in Indices(listing) : listing[i].engineer_id = e}) <= 100

====
